---- MODULE Spec2Model ----
(***************************************************************************)
(* Model of the UltraStable supply-adjustment integration of the O2UL      *)
(* chain (core/ultrastable_integration.go, core/genesis_ultrastable.go).   *)
(*                                                                         *)
(* The ledger is the storage of the UltraStable system account (32-byte    *)
(* words addressed by common.HexToHash of a string identifier) and the     *)
(* native balance of the treasury account.  Strings are sequences of       *)
(* one-character strings so that the key derivation can be computed the    *)
(* way the code computes it.                                               *)
(*                                                                         *)
(* Spec is the engine and the journal called one call at a time;           *)
(* ManagerSpec the update scheduler with the update feed and the market   *)
(* value setter, FairManagerSpec the same under fair scheduling of the     *)
(* manager's goroutines;                                                   *)
(* NotifierSpec the engine with subscribers of the adjustment feed;        *)
(* RaceSpec two calls of the engine interleaved at every ledger access.    *)
(***************************************************************************)
EXTENDS Integers, Sequences, FiniteSets, TLC

(***************************************************************************)
(* Bounds.  A storage word and a uint256 balance hold 0 .. MaxWord (the    *)
(* code: 0 .. 2^256 - 1); an int64 holds -(MaxInt64 + 1) .. MaxInt64 (the  *)
(* code: -2^63 .. 2^63 - 1), narrower than a word as in the code.          *)
(***************************************************************************)
MaxWord == 31

MaxInt64 == 11

\* Number of adjustments applied in one behaviour.
MaxApplied == 2

\* Number of update workers started (calls of Start that reach line 67).
MaxWorkers == 1

\* Number of goroutines of the node that call the manager's API.
MaxCallers == 1

\* Number of times the decision source gets new data in one behaviour.
MaxTime == 2

WordModulus == MaxWord + 1

Int64Modulus == 2 * (MaxInt64 + 1)

(***************************************************************************)
(* String identifiers of the storage fields, as written in the source.     *)
(***************************************************************************)
ultrastable_token_name ==
    << "u", "l", "t", "r", "a", "s", "t", "a", "b", "l", "e", "_", "t", "o",
       "k", "e", "n", "_", "n", "a", "m", "e" >>

ultrastable_token_symbol ==
    << "u", "l", "t", "r", "a", "s", "t", "a", "b", "l", "e", "_", "t", "o",
       "k", "e", "n", "_", "s", "y", "m", "b", "o", "l" >>

ultrastable_token_decimals ==
    << "u", "l", "t", "r", "a", "s", "t", "a", "b", "l", "e", "_", "t", "o",
       "k", "e", "n", "_", "d", "e", "c", "i", "m", "a", "l", "s" >>

ultrastable_initial_supply ==
    << "u", "l", "t", "r", "a", "s", "t", "a", "b", "l", "e", "_", "i", "n",
       "i", "t", "i", "a", "l", "_", "s", "u", "p", "p", "l", "y" >>

ultrastable_current_supply ==
    << "u", "l", "t", "r", "a", "s", "t", "a", "b", "l", "e", "_", "c", "u",
       "r", "r", "e", "n", "t", "_", "s", "u", "p", "p", "l", "y" >>

ultrastable_minimum_supply ==
    << "u", "l", "t", "r", "a", "s", "t", "a", "b", "l", "e", "_", "m", "i",
       "n", "i", "m", "u", "m", "_", "s", "u", "p", "p", "l", "y" >>

ultrastable_update_frequency ==
    << "u", "l", "t", "r", "a", "s", "t", "a", "b", "l", "e", "_", "u", "p",
       "d", "a", "t", "e", "_", "f", "r", "e", "q", "u", "e", "n", "c", "y" >>

ultrastable_initial_value ==
    << "u", "l", "t", "r", "a", "s", "t", "a", "b", "l", "e", "_", "i", "n",
       "i", "t", "i", "a", "l", "_", "v", "a", "l", "u", "e" >>

ultrastable_current_value ==
    << "u", "l", "t", "r", "a", "s", "t", "a", "b", "l", "e", "_", "c", "u",
       "r", "r", "e", "n", "t", "_", "v", "a", "l", "u", "e" >>

ultrastable_target_value ==
    << "u", "l", "t", "r", "a", "s", "t", "a", "b", "l", "e", "_", "t", "a",
       "r", "g", "e", "t", "_", "v", "a", "l", "u", "e" >>

ultrastable_last_update_time ==
    << "u", "l", "t", "r", "a", "s", "t", "a", "b", "l", "e", "_", "l", "a",
       "s", "t", "_", "u", "p", "d", "a", "t", "e", "_", "t", "i", "m", "e" >>

market_volatility ==
    << "m", "a", "r", "k", "e", "t", "_", "v", "o", "l", "a", "t", "i", "l",
       "i", "t", "y" >>

adjustment_history_count ==
    << "a", "d", "j", "u", "s", "t", "m", "e", "n", "t", "_", "h", "i", "s",
       "t", "o", "r", "y", "_", "c", "o", "u", "n", "t" >>

treasury_address ==
    << "t", "r", "e", "a", "s", "u", "r", "y", "_", "a", "d", "d", "r", "e",
       "s", "s" >>

\* The pieces of prefix + field: "adjustment_" + count.String() + "_" + field.
lit_adjustment ==
    << "a", "d", "j", "u", "s", "t", "m", "e", "n", "t", "_" >>

lit_underscore ==
    << "_" >>

lit_type ==
    << "t", "y", "p", "e" >>

lit_amount ==
    << "a", "m", "o", "u", "n", "t" >>

lit_value_tokens ==
    << "v", "a", "l", "u", "e", "_", "t", "o", "k", "e", "n", "s" >>

lit_deviation ==
    << "d", "e", "v", "i", "a", "t", "i", "o", "n" >>

lit_new_supply ==
    << "n", "e", "w", "_", "s", "u", "p", "p", "l", "y" >>

lit_timestamp ==
    << "t", "i", "m", "e", "s", "t", "a", "m", "p" >>

(***************************************************************************)
(* Conversions, computed the way the libraries the code calls compute      *)
(* them.                                                                   *)
(***************************************************************************)

\* encoding/hex's table: the value of a hexadecimal digit, 255 for any
\* other character.
HexDigitValue(c) ==
    CASE c = "0" -> 0 [] c = "1" -> 1 [] c = "2" -> 2 [] c = "3" -> 3
      [] c = "4" -> 4 [] c = "5" -> 5 [] c = "6" -> 6 [] c = "7" -> 7
      [] c = "8" -> 8 [] c = "9" -> 9
      [] c = "a" -> 10 [] c = "b" -> 11 [] c = "c" -> 12
      [] c = "d" -> 13 [] c = "e" -> 14 [] c = "f" -> 15
      [] c = "A" -> 10 [] c = "B" -> 11 [] c = "C" -> 12
      [] c = "D" -> 13 [] c = "E" -> 14 [] c = "F" -> 15
      [] OTHER -> 255

has0xPrefix(s) ==
    Len(s) >= 2 /\ s[1] = "0" /\ (s[2] = "x" \/ s[2] = "X")

\* hex.Decode from the pair starting at j: the bytes decoded before the
\* first character that is no hexadecimal digit.
RECURSIVE DecodeFrom(_, _)
DecodeFrom(s, j) ==
    IF j + 1 > Len(s)
    THEN << >>
    ELSE LET a == HexDigitValue(s[j])
             b == HexDigitValue(s[j + 1])
         IN  IF a > 15 \/ b > 15
             THEN << >>
             ELSE << a * 16 + b >> \o DecodeFrom(s, j + 2)

\* common.Hex2Bytes: hex.DecodeString with its error dropped.
Hex2Bytes(s) == DecodeFrom(s, 1)

\* common.FromHex: an optional 0x is cut, an odd length is padded with a
\* leading "0".
FromHex(s) ==
    LET t == IF has0xPrefix(s) THEN SubSeq(s, 3, Len(s)) ELSE s
        u == IF Len(t) % 2 = 1 THEN << "0" >> \o t ELSE t
    IN  Hex2Bytes(u)

RECURSIVE TrimLeadingZeros(_)
TrimLeadingZeros(b) ==
    IF b # << >> /\ Head(b) = 0 THEN TrimLeadingZeros(Tail(b)) ELSE b

\* common.BytesToHash on the bytes of a key: the last 32 bytes, left-padded
\* with zeros.  A hash is kept without its leading zero bytes.
BytesToHash(b) ==
    TrimLeadingZeros(IF Len(b) > 32 THEN SubSeq(b, Len(b) - 31, Len(b)) ELSE b)

\* common.HexToHash(s) == BytesToHash(FromHex(s))
HexToHash(s) == BytesToHash(FromHex(s))

Abs(x) == IF x < 0 THEN -x ELSE x

\* big.Int.Bytes(): the big-endian bytes of the absolute value; the sign is
\* not encoded.  Bytes that hold a number are kept as that number.
Bytes(x) == Abs(x)

\* common.BytesToHash on the bytes of a number: the low 32 bytes.
BytesToHashWord(n) == n % WordModulus

\* new(big.Int).SetBytes(h[:]): the unsigned number a word encodes.
SetBytes(h) == h

\* big.Int.Int64(): the low 64 bits, read as a signed number.
Int64(x) ==
    LET y == x % Int64Modulus
    IN  IF y > MaxInt64 THEN y - Int64Modulus ELSE y

\* uint256.FromBig: the low 256 bits and whether the number did not fit.
FromBig(b) ==
    [value |-> b % WordModulus, overflow |-> Abs(b) >= WordModulus]

Digit(d) ==
    CASE d = 0 -> "0" [] d = 1 -> "1" [] d = 2 -> "2" [] d = 3 -> "3"
      [] d = 4 -> "4" [] d = 5 -> "5" [] d = 6 -> "6" [] d = 7 -> "7"
      [] d = 8 -> "8" [] d = 9 -> "9"

\* big.Int.String() of a number >= 0: its decimal digits.
RECURSIVE String(_)
String(n) ==
    IF n < 10 THEN << Digit(n) >> ELSE String(n \div 10) \o << Digit(n % 10) >>

(***************************************************************************)
(* The ledger: storage words of the system accounts, by <<account, key>>,  *)
(* and native balances.  A word that is zero is an absent slot.            *)
(***************************************************************************)
UltraStableTokenSystemAddress == "0x1002"

GetState(st, addr, key) ==
    IF << addr, key >> \in DOMAIN st THEN st[<< addr, key >>] ELSE 0

SetState(st, addr, key, val) ==
    IF val = 0
    THEN [k \in (DOMAIN st) \ {<< addr, key >>} |-> st[k]]
    ELSE [k \in (DOMAIN st) \cup {<< addr, key >>} |->
              IF k = << addr, key >> THEN val ELSE st[k]]

GetBalance(bal, addr) == bal[addr]

\* uint256 arithmetic of the state object: the result wraps at 2^256.
SubBalance(bal, addr, amount) ==
    IF amount = 0
    THEN bal
    ELSE [bal EXCEPT ![addr] = (bal[addr] - amount) % WordModulus]

AddBalance(bal, addr, amount) ==
    IF amount = 0
    THEN bal
    ELSE [bal EXCEPT ![addr] = (bal[addr] + amount) % WordModulus]

(***************************************************************************)
(* Genesis (core/genesis_ultrastable.go).                                  *)
(***************************************************************************)
TreasuryAccounts == {"treasury"}

\* statedb.SetState(addr, common.HexToHash(id), common.BytesToHash(b)) for
\* each << id, number whose bytes are b >> of writes, in order.
RECURSIVE SetStates(_, _, _)
SetStates(st, addr, writes) ==
    IF writes = << >>
    THEN st
    ELSE SetStates(SetState(st, addr, HexToHash(Head(writes)[1]),
                            BytesToHashWord(Bytes(Head(writes)[2]))),
                   addr, Tail(writes))

\* The state SetupUltraStableToken leaves: initialSupply is
\* config.InitialSupply, treasuryWord the number the treasury address
\* encodes, now the genesis time.  The two text values (name, symbol) are
\* stood for by the numbers 7 and 5, 10^18 by 1.  The loops over the
\* proprietary configuration maps (lines 117-139) write keys the manager
\* never reads, before the last write below, and are left out.
SetupUltraStableToken(treasuryAddr, treasuryWord, initialSupply, now) ==
    IF FromBig(initialSupply).overflow
    THEN [balance |-> [a \in TreasuryAccounts |-> 0], storage |-> << >>]
    ELSE
    [balance |->
         AddBalance([a \in TreasuryAccounts |-> 0], treasuryAddr,
                    FromBig(initialSupply).value),
     storage |->
         SetStates(<< >>, UltraStableTokenSystemAddress,
             << << ultrastable_token_name, 7 >>,
                << ultrastable_token_symbol, 5 >>,
                << ultrastable_token_decimals, 18 >>,
                << ultrastable_initial_supply, initialSupply >>,
                << ultrastable_current_supply, initialSupply >>,
                << ultrastable_minimum_supply, 1 >>,
                << ultrastable_update_frequency, 6 >>,
                << ultrastable_initial_value, 1 >>,
                << ultrastable_current_value, 1 >>,
                << ultrastable_target_value, 1 >>,
                << ultrastable_last_update_time, now >>,
                << market_volatility, 25 >>,
                << adjustment_history_count, 0 >>,
                << treasury_address, treasuryWord >> >>)]

(***************************************************************************)
(* Adjustment decisions (seigniorage.AdjustmentResult) and the inputs the  *)
(* operations are called with.                                             *)
(***************************************************************************)
None == "None"

Expansion == "Expansion"

Contraction == "Contraction"

AdjustmentTypes == {None, Expansion, Contraction}

Amounts == {1, MaxWord}

ValueTokenAmounts == {2, MaxWord + 2}

DeviationValues == {-3}

\* A supply does not fit an int64 (10^24 > 2^63).
NewSupplyValues == {MaxInt64 + 2}

\* Unix seconds: an int64, of one or of two decimal digits.
Timestamps == {2, MaxInt64}

AdjustmentResults ==
    [Type : AdjustmentTypes, Amount : Amounts, ValueTokens : ValueTokenAmounts,
     DeviationBps : DeviationValues, NewSupply : NewSupplyValues,
     Timestamp : Timestamps]

InitialSupplies == {1, MaxWord}

TreasuryWords == {3, MaxWord - 5}

(***************************************************************************)
(* State.                                                                  *)
(*   storage   the storage words of the system accounts                    *)
(*   balance   the native balance of each treasury account                 *)
(*   last      the last step, when it was a call of the manager's code:    *)
(*             its inputs, the answers of its collaborators, the ledger    *)
(*             before it, what it returned and published                   *)
(*   nApplied  calls of ApplySupplyAdjustment that reached the mutation    *)
(***************************************************************************)
VARIABLES storage, balance, last, nApplied

(***************************************************************************)
(* The manager (UltraStableManager) and the goroutines that run its code.  *)
(*   clock           time.Now(), an instant; 0 is the zero time.Time       *)
(*   sourceTime      m.proprietary.GetLastUpdateTime()                     *)
(*   lastUpdateTime  m.lastUpdateTime                                      *)
(*   quit            whether m.quit is closed                              *)
(*   panicked        whether a goroutine panicked (the program is down)    *)
(*   pc              where each goroutine is                               *)
(*   tick            per worker, whether its ticker.C holds a tick         *)
(*   cycle           per goroutine, the call it is in the middle of        *)
(*   feeds           m.updateFeed and m.adjustFeed: their subscribers, the *)
(*                   goroutine inside Send and the subscribers it has yet  *)
(*                   to deliver to                                         *)
(***************************************************************************)
VARIABLES clock, sourceTime, lastUpdateTime, quit, panicked, pc, tick, cycle,
          feeds

managerVars ==
    << clock, sourceTime, lastUpdateTime, quit, panicked, pc, tick, cycle,
       feeds >>

vars == << storage, balance, last, nApplied, managerVars >>

Workers == {"worker"} \X (1 .. MaxWorkers)

Callers == {"caller"} \X (1 .. MaxCallers)

\* Two goroutines of the node that are inside ApplySupplyAdjustment at the
\* same time.
Racers == {"racer"} \X (1 .. 2)

Procs == Workers \cup Callers \cup Racers

\* Consumers of the node that may subscribe to a feed.
Subscribers == {"s1", "s2"}

updateFeed == "updateFeed"

adjustFeed == "adjustFeed"

NoProc == << "none", 0 >>

\* An event.Feed nobody subscribed to and nobody is sending on.
EmptyFeed == [subs |-> {}, sender |-> NoProc, pending |-> {}]

\* The value of last after a step that is no call of the manager's API.
NoCall == [op |-> "none"]

\* A goroutine that is in the middle of no call.
NoCycle == [op |-> "none"]

\* NewUltraStableManager: quit open, zero lastUpdateTime, empty feeds, no
\* worker started.
NewUltraStableManager ==
    /\ clock = 0
    /\ sourceTime = 0
    /\ lastUpdateTime = 0
    /\ quit = FALSE
    /\ panicked = FALSE
    /\ pc = [p \in Procs |-> IF p \in Workers THEN "none" ELSE "idle"]
    /\ tick = [w \in Workers |-> FALSE]
    /\ cycle = [p \in Procs |-> NoCycle]
    /\ feeds = [f \in {updateFeed, adjustFeed} |-> EmptyFeed]

Init ==
    \E treasuryAddr \in TreasuryAccounts, treasuryWord \in TreasuryWords,
       initialSupply \in InitialSupplies, now \in Timestamps :
        LET g == SetupUltraStableToken(treasuryAddr, treasuryWord,
                                       initialSupply, now)
        IN  /\ storage = g.storage
            /\ balance = g.balance
            /\ last = [op |-> "none"]
            /\ nApplied = 0
            /\ NewUltraStableManager

(***************************************************************************)
(* The supply adjustment engine (core/ultrastable_integration.go).         *)
(***************************************************************************)

\* m.blockchain.State(): the ledger, or an error.  Every call reaches the
\* one ledger of the chain; stateErr is whether this call failed.
State(st, stateErr) == [statedb |-> st, err |-> stateErr]

\* updateAdjustmentHistory's switch on adjustment.Type.
typeValue(type) ==
    CASE type = Expansion -> 1
      [] type = Contraction -> 2
      [] OTHER -> 0

\* prefix := "adjustment_" + count.String() + "_"
prefix(count) == lit_adjustment \o String(count) \o lit_underscore

\* updateAdjustmentHistory, lines 310-364: its writes, count being the
\* history count it read.
writeAdjustmentRecord(st, adjustment, count) ==
    LET A  == UltraStableTokenSystemAddress
        newCount == count + 1
        s1 == SetState(st, A, HexToHash(adjustment_history_count),
                       BytesToHashWord(Bytes(newCount)))
        p  == prefix(count)
        s2 == SetState(s1, A, HexToHash(p \o lit_type),
                       BytesToHashWord(Bytes(typeValue(adjustment.Type))))
        s3 == SetState(s2, A, HexToHash(p \o lit_amount),
                       BytesToHashWord(Bytes(adjustment.Amount)))
        s4 == SetState(s3, A, HexToHash(p \o lit_value_tokens),
                       BytesToHashWord(Bytes(adjustment.ValueTokens)))
        s5 == SetState(s4, A, HexToHash(p \o lit_deviation),
                       BytesToHashWord(Bytes(adjustment.DeviationBps)))
        s6 == SetState(s5, A, HexToHash(p \o lit_new_supply),
                       BytesToHashWord(Bytes(adjustment.NewSupply)))
        s7 == SetState(s6, A, HexToHash(p \o lit_timestamp),
                       BytesToHashWord(Bytes(adjustment.Timestamp)))
    IN  s7

\* updateAdjustmentHistory: the storage it leaves.  stateErr is whether its
\* own m.blockchain.State() failed.
updateAdjustmentHistory(st, adjustment, stateErr) ==
    IF State(st, stateErr).err
    THEN st
    ELSE writeAdjustmentRecord(st, adjustment,
             SetBytes(GetState(st, UltraStableTokenSystemAddress,
                               HexToHash(adjustment_history_count))))

\* ApplySupplyAdjustment without its early return for a None decision.
NoAdjustmentNeeded_Missing(adjustment) == FALSE

\* if adjustment.Type == seigniorage.None { return nil }
NoAdjustmentNeeded(adjustment) == adjustment.Type = None

\* ApplySupplyAdjustment ignoring the answer of the feasibility predicate.
NotPossible_Ignored(possible) == FALSE

\* if !possible { log.Warn(...); return nil }
NotPossible(possible) == ~possible

\* The Expansion branch (lines 221-252): err when the value token amount
\* does not fit a uint256, else the ledger with the treasury debited and
\* the supply word rewritten.
ExpansionBranch(st, bal, adjustment, treasuryAddr) ==
    LET valueAmount == FromBig(adjustment.ValueTokens)
        bal1 == SubBalance(bal, treasuryAddr, valueAmount.value)
        currentSupply ==
            SetBytes(GetState(st, UltraStableTokenSystemAddress,
                              HexToHash(ultrastable_current_supply)))
        newSupply == currentSupply + adjustment.Amount
    IN  IF valueAmount.overflow
        THEN [err |-> TRUE, storage |-> st, balance |-> bal]
        ELSE [err |-> FALSE,
              storage |-> SetState(st, UltraStableTokenSystemAddress,
                                   HexToHash(ultrastable_current_supply),
                                   BytesToHashWord(Bytes(newSupply))),
              balance |-> bal1]

\* The Contraction branch (lines 253-285).
ContractionBranch(st, bal, adjustment, treasuryAddr) ==
    LET valueAmount == FromBig(adjustment.ValueTokens)
        bal1 == AddBalance(bal, treasuryAddr, valueAmount.value)
        currentSupply ==
            SetBytes(GetState(st, UltraStableTokenSystemAddress,
                              HexToHash(ultrastable_current_supply)))
        newSupply == currentSupply - adjustment.Amount
    IN  IF valueAmount.overflow
        THEN [err |-> TRUE, storage |-> st, balance |-> bal]
        ELSE [err |-> FALSE,
              storage |-> SetState(st, UltraStableTokenSystemAddress,
                                   HexToHash(ultrastable_current_supply),
                                   BytesToHashWord(Bytes(newSupply))),
              balance |-> bal1]

\* A return of ApplySupplyAdjustment that wrote nothing.
Return(st, bal, ret, asked, possible, stateCalls) ==
    [storage |-> st, balance |-> bal, ret |-> ret, asked |-> asked,
     possible |-> possible, mutated |-> FALSE, history |-> FALSE,
     sent |-> << >>, stateCalls |-> stateCalls]

\* What one call of ApplySupplyAdjustment does to the ledger st, bal.
\*   stateErr      its m.blockchain.State() failed
\*   possible      the answer of m.proprietary.IsAdjustmentPossible
\*   histStateErr  the m.blockchain.State() of updateAdjustmentHistory failed
\* The result: the ledger it leaves, the error it returns ("nil" for none),
\* whether the feasibility predicate was asked and what it answered, whether
\* the balance and supply were written, whether the history was written, and
\* the events sent on adjustFeed, and how many times it called
\* m.blockchain.State() (line 195, and line 298 in updateAdjustmentHistory).
ApplySupplyAdjustmentResult(st, bal, adjustment, treasuryAddr, stateErr, possible, histStateErr) ==
    IF NoAdjustmentNeeded(adjustment)
    THEN Return(st, bal, "nil", FALSE, FALSE, 0)
    ELSE IF State(st, stateErr).err
    THEN Return(st, bal, "state error", FALSE, FALSE, 1)
    ELSE IF NotPossible(possible)
    THEN Return(st, bal, "nil", TRUE, possible, 1)
    ELSE
    LET branch ==
            IF adjustment.Type = Expansion
            THEN ExpansionBranch(st, bal, adjustment, treasuryAddr)
            ELSE IF adjustment.Type = Contraction
            THEN ContractionBranch(st, bal, adjustment, treasuryAddr)
            ELSE [err |-> FALSE, storage |-> st, balance |-> bal]
    IN  IF branch.err
        THEN Return(st, bal, "value token amount overflow", TRUE, possible,
                    1)
        ELSE [storage |-> updateAdjustmentHistory(branch.storage, adjustment,
                                                  histStateErr),
              balance |-> branch.balance,
              ret |-> "nil", asked |-> TRUE, possible |-> possible,
              mutated |-> adjustment.Type \in {Expansion, Contraction},
              history |-> ~histStateErr,
              sent |-> << adjustment >>,
              stateCalls |-> 2]

\* The answers of the collaborators of one call: << stateErr, possible,
\* histStateErr >>, an answer that is not asked for being FALSE.
Answers ==
    { a \in BOOLEAN \X BOOLEAN \X BOOLEAN :
        /\ a[1] => ~a[2]
        /\ ~a[2] => ~a[3] }

(***************************************************************************)
(* event.Feed.  Send takes the feed's send lock, offers the value to every *)
(* subscribed channel and returns when each of them has taken it; the      *)
(* channels are unbuffered, so a subscriber takes the value when it        *)
(* receives.                                                               *)
(***************************************************************************)

\* Send on feed f returns without waiting: the send lock is free and the
\* feed has no subscriber.
SendReturnsAtOnce(f) ==
    /\ feeds[f].sender = NoProc
    /\ feeds[f].subs = {}

\* Goroutine p calls Send on feed f and has to wait: for the receivers if
\* it got the send lock, for the send lock otherwise.  c is the call p is
\* in the middle of.
EnterSend(p, f, c) ==
    /\ cycle' = [cycle EXCEPT ![p] = c]
    /\ IF feeds[f].sender = NoProc
       THEN /\ pc' = [pc EXCEPT ![p] = "send"]
            /\ feeds' = [feeds EXCEPT ![f] =
                             [subs |-> feeds[f].subs, sender |-> p,
                              pending |-> feeds[f].subs]]
       ELSE /\ pc' = [pc EXCEPT ![p] = "sendLock"]
            /\ UNCHANGED feeds

\* A goroutine waiting for the send lock of the feed gets it.
AcquireSendLock ==
    /\ ~panicked
    /\ \E p \in Procs :
          /\ pc[p] = "sendLock"
          /\ feeds[cycle[p].feed].sender = NoProc
          /\ pc' = [pc EXCEPT ![p] = "send"]
          /\ feeds' = [feeds EXCEPT ![cycle[p].feed] =
                           [subs |-> feeds[cycle[p].feed].subs, sender |-> p,
                            pending |-> feeds[cycle[p].feed].subs]]
          /\ last' = NoCall
    /\ UNCHANGED << storage, balance, nApplied, clock, sourceTime,
                    lastUpdateTime, quit, panicked, tick, cycle >>

\* SubscribeToUpdates / SubscribeToAdjustments: consumer s subscribes an
\* unbuffered channel.  A subscription made while a Send is under way gets
\* the values of later Sends only.
Subscribe(f) ==
    /\ ~panicked
    /\ \E s \in Subscribers :
          /\ \A g \in DOMAIN feeds : s \notin feeds[g].subs
          /\ feeds' = [feeds EXCEPT ![f] =
                           [subs |-> feeds[f].subs \cup {s},
                            sender |-> feeds[f].sender,
                            pending |-> feeds[f].pending]]
          /\ last' = NoCall
    /\ UNCHANGED << storage, balance, nApplied, clock, sourceTime,
                    lastUpdateTime, quit, panicked, pc, tick, cycle >>

SubscribeToUpdates == Subscribe(updateFeed)

SubscribeToAdjustments == Subscribe(adjustFeed)

\* A subscriber receives from its channel the value a Send is offering.
Receive ==
    /\ ~panicked
    /\ \E f \in DOMAIN feeds : \E s \in feeds[f].pending :
          /\ feeds' = [feeds EXCEPT ![f] =
                           [subs |-> feeds[f].subs,
                            sender |-> feeds[f].sender,
                            pending |-> feeds[f].pending \ {s}]]
          /\ last' = NoCall
    /\ UNCHANGED << storage, balance, nApplied, clock, sourceTime,
                    lastUpdateTime, quit, panicked, pc, tick, cycle >>

\* What m.proprietary.CalculateSupplyAdjustment may return: a decision of
\* each kind.  The supply, price and volatility ProcessUpdate reads (lines
\* 124-143) only feed this call.
Decisions ==
    { a \in AdjustmentResults :
        a.Amount = 1 /\ a.ValueTokens = 2 /\ a.Timestamp = 2 }

\* ApplySupplyAdjustment(adjustment, treasuryAddr) called by a goroutine of
\* the node with one of adjustments.
ApplySupplyAdjustmentOf(adjustments) ==
    /\ ~panicked
    /\ nApplied < MaxApplied
    /\ UNCHANGED << clock, sourceTime, lastUpdateTime, quit, panicked, tick >>
    /\ \E p \in Callers, adjustment \in adjustments,
          treasuryAddr \in TreasuryAccounts, a \in Answers :
          LET r == ApplySupplyAdjustmentResult(storage, balance, adjustment,
                       treasuryAddr, a[1], a[2], a[3])
          IN  /\ pc[p] = "idle"
              /\ IF r.sent = << >> \/ SendReturnsAtOnce(adjustFeed)
                 THEN UNCHANGED << pc, cycle, feeds >>
                 ELSE EnterSend(p, adjustFeed,
                                [op |-> "ApplySupplyAdjustment",
                                 feed |-> adjustFeed, event |-> adjustment])
              /\ storage' = r.storage
              /\ balance' = r.balance
              /\ nApplied' = IF r.mutated THEN nApplied + 1 ELSE nApplied
              /\ last' = [op |-> "ApplySupplyAdjustment",
                          adjustment |-> adjustment,
                          treasuryAddr |-> treasuryAddr,
                          ret |-> r.ret, asked |-> r.asked,
                          possible |-> r.possible, mutated |-> r.mutated,
                          history |-> r.history, sent |-> r.sent,
                          stateCalls |-> r.stateCalls,
                          storageBefore |-> storage,
                          balanceBefore |-> balance]

\* Called with any decision.
ApplySupplyAdjustment == ApplySupplyAdjustmentOf(AdjustmentResults)

\* Called with a decision the decision source computed.
ApplyDecision == ApplySupplyAdjustmentOf(Decisions)

(***************************************************************************)
(* The history journal's query.                                            *)
(***************************************************************************)

\* GetAdjustmentHistory's switch on the stored type value.
adjustType(v) ==
    CASE v = 1 -> Expansion
      [] v = 2 -> Contraction
      [] OTHER -> None

\* The body of GetAdjustmentHistory's loop: the entry read at index i.
HistoryEntry(st, i) ==
    LET A == UltraStableTokenSystemAddress
        p == prefix(i)
    IN  [Type |-> adjustType(Int64(SetBytes(
                      GetState(st, A, HexToHash(p \o lit_type))))),
         Amount |-> SetBytes(GetState(st, A, HexToHash(p \o lit_amount))),
         ValueTokens |->
             SetBytes(GetState(st, A, HexToHash(p \o lit_value_tokens))),
         DeviationBps |->
             SetBytes(GetState(st, A, HexToHash(p \o lit_deviation))),
         NewSupply |->
             SetBytes(GetState(st, A, HexToHash(p \o lit_new_supply))),
         Timestamp |-> Int64(SetBytes(
                      GetState(st, A, HexToHash(p \o lit_timestamp))))]

\* for i := start; i < count; i++ { results = append(results, entry i) }
RECURSIVE FetchEntries(_, _, _)
FetchEntries(st, i, count) ==
    IF i < count
    THEN << HistoryEntry(st, i) >> \o FetchEntries(st, i + 1, count)
    ELSE << >>

\* GetAdjustmentHistory(maxEntries): the slice it returns, the nil (empty)
\* slice when m.blockchain.State() failed.
GetAdjustmentHistoryResult(st, maxEntries, stateErr) ==
    IF State(st, stateErr).err
    THEN << >>
    ELSE
    LET count == Int64(SetBytes(GetState(st, UltraStableTokenSystemAddress,
                                         HexToHash(adjustment_history_count))))
        start0 == count - maxEntries
        start == IF start0 < 0 THEN 0 ELSE start0
    IN  FetchEntries(st, start, count)

MaxEntriesValues == 0 .. MaxApplied + 1

GetAdjustmentHistory ==
    \E maxEntries \in MaxEntriesValues, stateErr \in BOOLEAN :
        /\ last' = [op |-> "GetAdjustmentHistory",
                    maxEntries |-> maxEntries,
                    stateErr |-> stateErr,
                    results |-> GetAdjustmentHistoryResult(storage, maxEntries,
                                                           stateErr)]
        /\ ~panicked
        /\ UNCHANGED << storage, balance, nApplied, managerVars >>

(***************************************************************************)
(* The update scheduler: Start, Stop, updateWorker, checkForUpdates,       *)
(* ProcessUpdate, ForceUpdate.                                             *)
(***************************************************************************)

\* What m.proprietary.GetTargetStableValue and GetCurrentStableValue return
\* (10^18 is stood for by 1, as in genesis).
StableValues == {1}

\* ProcessUpdate, lines 152-170: the storage after its three writes.
ProcessUpdateWrites(st, targetValue, currentValue, updateTime) ==
    SetStates(st, UltraStableTokenSystemAddress,
              << << ultrastable_target_value, targetValue >>,
                 << ultrastable_current_value, currentValue >>,
                 << ultrastable_last_update_time, updateTime >> >>)

\* ProcessUpdate without its State() check: lines 118-122 return before
\* anything is done when this is FALSE.
ProcessUpdate_IgnoresStateError(stateErr) == TRUE

\* ProcessUpdate goes on after m.blockchain.State() (lines 118-122).
ProcessUpdateGoesOn(stateErr) == ~State(storage, stateErr).err

\* ProcessUpdate publishing only the decisions that adjust the supply.
EmitsUpdate_OnlyAdjustments(adjustment) == adjustment.Type # None

\* ProcessUpdate, lines 149-150: the decision is published whatever it is.
EmitsUpdate(adjustment) == TRUE

\* One run of ProcessUpdate by goroutine p, started by `by` (checkForUpdates
\* or ForceUpdate): to its end, or to the updateFeed.Send it has to wait in.
\* time.Now() is the clock after what the caller did before the run.
\* goesOn is whether it is run at all, retPc where p is after it, oracleErr
\* and ret what the oracle query answered and what the caller returns.
\* A run that waits in Send keeps what it has computed; seen is the decision
\* source's last update time when CalculateSupplyAdjustment computed the
\* decision (lines 145-147).
RunProcessUpdate(p, by, goesOn, retPc, oracleErr, ret) ==
    \E stateErr \in BOOLEAN, adjustment \in Decisions,
       targetValue \in StableValues, currentValue \in StableValues :
        LET run  == goesOn /\ ProcessUpdateGoesOn(stateErr)
            emit == run /\ EmitsUpdate(adjustment)
            wait == emit /\ ~SendReturnsAtOnce(updateFeed)
        IN  /\ goesOn \/ ~stateErr
            /\ IF wait
               THEN /\ EnterSend(p, updateFeed,
                           [op |-> "ProcessUpdate", by |-> by,
                            feed |-> updateFeed, event |-> adjustment,
                            targetValue |-> targetValue,
                            currentValue |-> currentValue,
                            seen |-> sourceTime',
                            retPc |-> retPc])
                    /\ UNCHANGED << storage, lastUpdateTime >>
               ELSE /\ pc' = [pc EXCEPT ![p] = retPc]
                    /\ UNCHANGED << cycle, feeds >>
                    /\ storage' =
                           IF run
                           THEN ProcessUpdateWrites(storage, targetValue,
                                                    currentValue, clock')
                           ELSE storage
                    /\ lastUpdateTime' = IF run THEN clock' ELSE lastUpdateTime
            /\ last' = [op |-> by, proc |-> p, ret |-> ret,
                        oracleErr |-> oracleErr,
                        called |-> goesOn,
                        stateErr |-> stateErr,
                        sent |-> IF emit THEN << adjustment >> ELSE << >>,
                        completed |-> run /\ ~wait]

\* Send returns to goroutine p: every subscriber it was sending to has
\* received.  ProcessUpdate goes on with lines 152-175; ApplySupplyAdjustment
\* returns.
SendReturns ==
    /\ ~panicked
    /\ \E p \in Procs :
          LET c == cycle[p]
          IN  /\ pc[p] = "send"
              /\ feeds[c.feed].pending = {}
              /\ feeds' = [feeds EXCEPT ![c.feed] =
                               [subs |-> feeds[c.feed].subs,
                                sender |-> NoProc, pending |-> {}]]
              /\ cycle' = [cycle EXCEPT ![p] = NoCycle]
              /\ IF c.op = "ProcessUpdate"
                 THEN /\ pc' = [pc EXCEPT ![p] = c.retPc]
                      /\ storage' = ProcessUpdateWrites(storage, c.targetValue,
                                        c.currentValue, clock)
                      /\ lastUpdateTime' = clock
                      /\ last' = [op |-> "SendReturns", proc |-> p,
                                  of |-> c.op, by |-> c.by,
                                  sent |-> << c.event >>, completed |-> TRUE]
                 ELSE /\ pc' = [pc EXCEPT ![p] = "idle"]
                      /\ UNCHANGED << storage, lastUpdateTime >>
                      /\ last' = [op |-> "SendReturns", proc |-> p,
                                  of |-> c.op, by |-> c.op,
                                  sent |-> << c.event >>, completed |-> TRUE]
    /\ UNCHANGED << balance, nApplied, clock, sourceTime, quit, panicked,
                    tick >>

\* The decision source gets new data: its last update time is now.
OracleUpdate ==
    /\ ~panicked
    /\ clock < MaxTime
    /\ clock' = clock + 1
    /\ sourceTime' = clock + 1
    /\ last' = NoCall
    /\ UNCHANGED << storage, balance, nApplied, lastUpdateTime, quit,
                    panicked, pc, tick, cycle, feeds >>

\* Start: m.proprietary.Start() fails and Start returns its error, or the
\* update worker is started.
Start ==
    /\ ~panicked
    /\ \E w \in Workers, startErr \in BOOLEAN :
          /\ pc[w] = "none"
          /\ pc' = IF startErr THEN pc ELSE [pc EXCEPT ![w] = "select"]
          /\ last' = [op |-> "Start",
                      ret |-> IF startErr THEN "start error" ELSE "nil"]
    /\ UNCHANGED << storage, balance, nApplied, clock, sourceTime,
                    lastUpdateTime, quit, panicked, tick, cycle, feeds >>

\* Stop: close(m.quit); closing a closed channel panics.
Stop ==
    /\ ~panicked
    /\ quit' = TRUE
    /\ panicked' = quit
    /\ last' = [op |-> "Stop"]
    /\ UNCHANGED << storage, balance, nApplied, clock, sourceTime,
                    lastUpdateTime, pc, tick, cycle, feeds >>

\* The ticker of a running worker fires: ticker.C (capacity 1) holds a tick.
TickerFires ==
    /\ ~panicked
    /\ \E w \in Workers :
          /\ pc[w] \notin {"none", "returned"}
          /\ ~tick[w]
          /\ tick' = [tick EXCEPT ![w] = TRUE]
          /\ last' = NoCall
    /\ UNCHANGED << storage, balance, nApplied, clock, sourceTime,
                    lastUpdateTime, quit, panicked, pc, cycle, feeds >>

\* checkForUpdates processing also data that is as old as m.lastUpdateTime.
NewerData_OrAsOld(proprietaryUpdate, lastUpdate) ==
    proprietaryUpdate >= lastUpdate

\* checkForUpdates, line 106: the decision source has newer data.
NewerData(proprietaryUpdate, lastUpdate) == proprietaryUpdate > lastUpdate

\* updateWorker's select takes case <-m.quit: the worker returns.
WorkerQuits(w) ==
    /\ ~panicked
    /\ pc[w] = "select"
    /\ quit
    /\ pc' = [pc EXCEPT ![w] = "returned"]
    /\ last' = [op |-> "updateWorker returns", proc |-> w]
    /\ UNCHANGED << storage, balance, nApplied, clock, sourceTime,
                    lastUpdateTime, quit, panicked, tick, cycle, feeds >>

\* updateWorker's select takes case <-ticker.C: checkForUpdates, and
\* ProcessUpdate when the decision source has newer data.  A select with
\* both cases ready takes either.
WorkerChecks(w) ==
    /\ ~panicked
    /\ pc[w] = "select"
    /\ tick[w]
    /\ tick' = [tick EXCEPT ![w] = FALSE]
    /\ UNCHANGED << balance, nApplied, clock, sourceTime, quit, panicked >>
    /\ RunProcessUpdate(w, "checkForUpdates",
                        NewerData(sourceTime, lastUpdateTime), "select",
                        FALSE, "")

updateWorker == \E w \in Workers : WorkerQuits(w) \/ WorkerChecks(w)

\* ForceUpdate without its check of the oracle's error (lines 397-399).
QueryFailed_Ignored(oracleErr) == FALSE

\* ForceUpdate, lines 397-399: m.proprietary.QueryAIOracle failed.
QueryFailed(oracleErr) == oracleErr

\* ForceUpdate(ctx) by a goroutine of the node.  A successful query may
\* have brought new data to the decision source.
ForceUpdate ==
    /\ ~panicked
    /\ \E p \in Callers, oracleErr \in BOOLEAN, fresh \in BOOLEAN :
          /\ pc[p] = "idle"
          /\ fresh => (~oracleErr /\ clock < MaxTime)
          /\ clock' = IF fresh THEN clock + 1 ELSE clock
          /\ sourceTime' = IF fresh THEN clock + 1 ELSE sourceTime
          /\ RunProcessUpdate(p, "ForceUpdate", ~QueryFailed(oracleErr),
                 "idle", oracleErr,
                 IF QueryFailed(oracleErr) THEN "oracle error" ELSE "nil")
    /\ UNCHANGED << balance, nApplied, quit, panicked, tick >>

\* The market values UpdateMarketValue is called with.
MarketValues == {2}

\* UpdateMarketValue(value) by a goroutine of the node: the value is handed
\* to the decision source and, unless m.blockchain.State() fails, written
\* under "ultrastable_current_value".
UpdateMarketValue ==
    /\ ~panicked
    /\ \E p \in Callers, value \in MarketValues, stateErr \in BOOLEAN :
          /\ pc[p] = "idle"
          /\ storage' =
                 IF State(storage, stateErr).err
                 THEN storage
                 ELSE SetState(storage, UltraStableTokenSystemAddress,
                               HexToHash(ultrastable_current_value),
                               BytesToHashWord(Bytes(value)))
          /\ last' = [op |-> "UpdateMarketValue", value |-> value,
                      stateErr |-> stateErr]
    /\ UNCHANGED << balance, nApplied, managerVars >>

Next ==
    \/ ApplySupplyAdjustment
    \/ GetAdjustmentHistory

Spec == Init /\ [][Next]_vars

\* The scheduler at work: the worker, forced updates, the decision source,
\* market value updates, the update feed and its subscribers.
ManagerNext ==
    \/ Start
    \/ Stop
    \/ TickerFires
    \/ updateWorker
    \/ OracleUpdate
    \/ ForceUpdate
    \/ UpdateMarketValue
    \/ SubscribeToUpdates
    \/ Receive
    \/ AcquireSendLock
    \/ SendReturns

ManagerSpec == Init /\ [][ManagerNext]_vars

\* A goroutine that runs the manager's code takes its next step, as the Go
\* scheduler makes it; a select with m.quit closed takes that case in the
\* end.  Nothing makes a subscriber receive.
ManagerFairness ==
    /\ WF_vars(AcquireSendLock)
    /\ WF_vars(SendReturns)
    /\ \A w \in Workers : SF_vars(WorkerQuits(w))

FairManagerSpec == ManagerSpec /\ ManagerFairness

(***************************************************************************)
(* Two calls of ApplySupplyAdjustment at the same time, each with a        *)
(* feasible Expansion and no error.  The function takes no lock, so the    *)
(* calls interleave at every access of the ledger.                         *)
(***************************************************************************)
RaceAdjustments == { a \in Decisions : a.Type = Expansion }

\* Lines 185-218: the checks and reads before the mutation.
RaceBegin(r) ==
    /\ pc[r] = "idle"
    /\ \E adjustment \in RaceAdjustments, treasuryAddr \in TreasuryAccounts :
          cycle' = [cycle EXCEPT ![r] =
                       [op |-> "ApplySupplyAdjustment",
                        adjustment |-> adjustment,
                        treasuryAddr |-> treasuryAddr,
                        supplyAtCall |->
                            SetBytes(GetState(storage,
                                UltraStableTokenSystemAddress,
                                HexToHash(ultrastable_current_supply))),
                        balanceAtCall |-> GetBalance(balance, treasuryAddr),
                        oldSupply |-> 0, count |-> 0]]
    /\ pc' = [pc EXCEPT ![r] = "SubBalance"]
    /\ UNCHANGED << storage, balance, nApplied >>

\* Line 235.
RaceSubBalance(r) ==
    /\ pc[r] = "SubBalance"
    /\ balance' = SubBalance(balance, cycle[r].treasuryAddr,
                      FromBig(cycle[r].adjustment.ValueTokens).value)
    /\ nApplied' = nApplied + 1
    /\ pc' = [pc EXCEPT ![r] = "readSupply"]
    /\ UNCHANGED << storage, cycle >>

\* Lines 238-241.
RaceReadSupply(r) ==
    /\ pc[r] = "readSupply"
    /\ cycle' = [cycle EXCEPT ![r].oldSupply =
                     SetBytes(GetState(storage, UltraStableTokenSystemAddress,
                                       HexToHash(ultrastable_current_supply)))]
    /\ pc' = [pc EXCEPT ![r] = "writeSupply"]
    /\ UNCHANGED << storage, balance, nApplied >>

\* Lines 243-247.
RaceWriteSupply(r) ==
    /\ pc[r] = "writeSupply"
    /\ storage' = SetState(storage, UltraStableTokenSystemAddress,
                      HexToHash(ultrastable_current_supply),
                      BytesToHashWord(Bytes(cycle[r].oldSupply
                                            + cycle[r].adjustment.Amount)))
    /\ pc' = [pc EXCEPT ![r] = "readCount"]
    /\ UNCHANGED << balance, nApplied, cycle >>

\* updateAdjustmentHistory, lines 298-308.
RaceReadCount(r) ==
    /\ pc[r] = "readCount"
    /\ cycle' = [cycle EXCEPT ![r].count =
                     SetBytes(GetState(storage, UltraStableTokenSystemAddress,
                                       HexToHash(adjustment_history_count)))]
    /\ pc' = [pc EXCEPT ![r] = "writeHistory"]
    /\ UNCHANGED << storage, balance, nApplied >>

\* updateAdjustmentHistory, lines 310-364, then lines 291-293: nobody is
\* subscribed, Send returns at once and the call returns nil.
RaceWriteHistory(r) ==
    /\ pc[r] = "writeHistory"
    /\ storage' = writeAdjustmentRecord(storage, cycle[r].adjustment,
                                        cycle[r].count)
    /\ pc' = [pc EXCEPT ![r] = "returned"]
    /\ UNCHANGED << balance, nApplied, cycle >>

RaceNext ==
    /\ \E r \in Racers :
          \/ RaceBegin(r)
          \/ RaceSubBalance(r)
          \/ RaceReadSupply(r)
          \/ RaceWriteSupply(r)
          \/ RaceReadCount(r)
          \/ RaceWriteHistory(r)
    /\ last' = [op |-> "ApplySupplyAdjustment step"]
    /\ UNCHANGED << clock, sourceTime, lastUpdateTime, quit, panicked, tick,
                    feeds >>

RaceSpec == Init /\ [][RaceNext]_vars

\* The engine called with computed decisions while consumers subscribe to
\* the adjustment feed.
NotifierNext ==
    \/ ApplyDecision
    \/ SubscribeToAdjustments
    \/ Receive
    \/ SendReturns

NotifierSpec == Init /\ [][NotifierNext]_vars

(***************************************************************************)
(* What the code reads back from the ledger.                               *)
(***************************************************************************)
CurrentSupply(st) ==
    SetBytes(GetState(st, UltraStableTokenSystemAddress,
                      HexToHash(ultrastable_current_supply)))

MinimumSupply(st) ==
    SetBytes(GetState(st, UltraStableTokenSystemAddress,
                      HexToHash(ultrastable_minimum_supply)))

HistoryCount(st) ==
    SetBytes(GetState(st, UltraStableTokenSystemAddress,
                      HexToHash(adjustment_history_count)))

Applied == last.op = "ApplySupplyAdjustment"

LedgerUnchanged ==
    /\ storage = last.storageBefore
    /\ balance = last.balanceBefore

Min(a, b) == IF a < b THEN a ELSE b

Max(a, b) == IF a < b THEN b ELSE a

(***************************************************************************)
(* Claims.                                                                 *)
(***************************************************************************)

\* C1: a call of ApplySupplyAdjustment with a decision of kind None returns
\* success and leaves the whole ledger as it was (treasury balance, supply
\* word, history count, every history record) and publishes no adjustment
\* event.
C1_NoneIsNoOp ==
    (Applied /\ last.adjustment.Type = None) =>
        /\ last.ret = "nil"
        /\ LedgerUnchanged
        /\ last.sent = << >>

\* C1 witness: a None decision was applied to a ledger that already holds
\* an applied adjustment.
C1_Witness ==
    /\ Applied
    /\ last.adjustment.Type = None
    /\ nApplied > 0
    /\ HistoryCount(storage) > 0

\* C2 (as claimed): after a successful call with an Expansion the
\* feasibility predicate accepted, whose counterpart amount the treasury
\* holds, the supply word is the supply before plus adjustment.Amount and
\* the treasury balance is the balance before minus adjustment.ValueTokens.
C2_ExpansionArithmetic ==
    (/\ Applied
     /\ last.adjustment.Type = Expansion
     /\ last.asked /\ last.possible
     /\ last.ret = "nil"
     /\ last.adjustment.ValueTokens <= last.balanceBefore[last.treasuryAddr]) =>
        /\ CurrentSupply(storage) =
               CurrentSupply(last.storageBefore) + last.adjustment.Amount
        /\ balance[last.treasuryAddr] =
               last.balanceBefore[last.treasuryAddr]
                   - last.adjustment.ValueTokens

\* C3 (as claimed): after a successful call with a Contraction the
\* feasibility predicate accepted, the supply word is the supply before
\* minus adjustment.Amount and the treasury balance is the balance before
\* plus adjustment.ValueTokens.
C3_ContractionArithmetic ==
    (/\ Applied
     /\ last.adjustment.Type = Contraction
     /\ last.asked /\ last.possible
     /\ last.ret = "nil") =>
        /\ CurrentSupply(storage) =
               CurrentSupply(last.storageBefore) - last.adjustment.Amount
        /\ balance[last.treasuryAddr] =
               last.balanceBefore[last.treasuryAddr]
                   + last.adjustment.ValueTokens

\* C4 (as claimed): the supply word is never below the minimum supply word,
\* and a Contraction that would take the supply below the minimum supply is
\* rejected with the ledger unchanged, whatever the feasibility predicate
\* answered.
C4_MinimumSupplyFloor ==
    /\ CurrentSupply(storage) >= MinimumSupply(storage)
    /\ (/\ Applied
        /\ last.adjustment.Type = Contraction
        /\ CurrentSupply(last.storageBefore) - last.adjustment.Amount
               < MinimumSupply(last.storageBefore)) =>
           (LedgerUnchanged /\ ~last.mutated /\ ~last.history)

\* C5 (as claimed): an Expansion whose counterpart amount exceeds the
\* treasury balance is rejected before any mutation: the balance does not
\* wrap and the ledger is unchanged.
C5_InsufficientBalanceRejected ==
    (/\ Applied
     /\ last.adjustment.Type = Expansion
     /\ last.adjustment.ValueTokens > last.balanceBefore[last.treasuryAddr]) =>
        (LedgerUnchanged /\ ~last.mutated)

\* C6 (as claimed): every applied adjustment that is written to the history
\* takes the next index: the history count grows by exactly one, and the
\* entry is stored at the index the count had before.
C6_HistoryIndexSequence ==
    (Applied /\ last.history) =>
        /\ HistoryCount(storage) = HistoryCount(last.storageBefore) + 1
        /\ HistoryEntry(storage, HistoryCount(last.storageBefore)).Type
               = last.adjustment.Type

\* C7 (as claimed): GetAdjustmentHistory(maxEntries) on a journal whose
\* history count is count returns min(maxEntries, count) entries, those at
\* the indices max(0, count - maxEntries) .. count - 1 in increasing order.
C7_QueryWindow ==
    (last.op = "GetAdjustmentHistory" /\ ~last.stateErr) =>
        LET count == HistoryCount(storage)
            n     == Min(last.maxEntries, count)
            start == Max(0, count - last.maxEntries)
        IN  /\ Len(last.results) = n
            /\ \A j \in 1 .. n :
                   last.results[j] = HistoryEntry(storage, start + j - 1)

\* C8: when the feasibility predicate answers that a decision is not
\* possible, the call changes nothing on the ledger and publishes no
\* adjustment event.
C8_InfeasibleIsNoOp ==
    (Applied /\ last.asked /\ ~last.possible) =>
        /\ LedgerUnchanged
        /\ last.sent = << >>
        /\ ~last.mutated /\ ~last.history

\* C8 witness: the predicate rejected an Expansion or a Contraction on a
\* ledger that already holds an applied adjustment.
C8_Witness ==
    /\ Applied
    /\ last.asked /\ ~last.possible
    /\ last.adjustment.Type \in {Expansion, Contraction}
    /\ nApplied > 0

\* C9 (as claimed): a call whose decision is infeasible returns something
\* other than what a successfully applied adjustment returns.
C9_SkipIsDistinguishable ==
    (Applied /\ last.asked /\ ~last.possible) => last.ret # "nil"

\* C10 (as claimed): when the counterpart amount does not fit 256 bits, or
\* the supply before plus adjustment.Amount does not fit the 32-byte supply
\* word, the call returns an error and the ledger is unchanged.
C10_OverflowDetectedBeforeMutation ==
    (/\ Applied
     /\ last.asked /\ last.possible
     /\ \/ last.adjustment.ValueTokens >= WordModulus
        \/ /\ last.adjustment.Type = Expansion
           /\ CurrentSupply(last.storageBefore) + last.adjustment.Amount
                  >= WordModulus) =>
        (last.ret # "nil" /\ LedgerUnchanged)

\* The last step was a run of ProcessUpdate by the update worker that ran
\* to its end within the step.
PeriodicCycleDone ==
    /\ last.op = "checkForUpdates"
    /\ last.completed

\* C11 (as claimed): a periodic cycle (checkForUpdates finding newer data,
\* then ProcessUpdate) whose decision is an Expansion the treasury can pay
\* for takes the counterpart amount from the treasury balance and appends
\* one history record before the worker is back at its select.
C11_PeriodicCycleApplies ==
    [][ \A a \in TreasuryAccounts :
          (/\ PeriodicCycleDone'
           /\ last'.sent[1].Type = Expansion
           /\ last'.sent[1].ValueTokens <= balance[a]) =>
              /\ balance'[a] = balance[a] - last'.sent[1].ValueTokens
              /\ HistoryCount(storage') = HistoryCount(storage) + 1 ]_vars

\* C12 (as claimed), its supply and balance part: when two calls of
\* ApplySupplyAdjustment that began on the same ledger, each with a feasible
\* Expansion the treasury can pay for, have both returned, the supply word
\* is the supply at the calls plus both amounts and the treasury balance is
\* the balance at the calls minus both counterpart amounts.
C12_NoLostUpdate ==
    \A r1 \in Racers : \A r2 \in Racers \ {r1} :
        (/\ pc[r1] = "returned" /\ pc[r2] = "returned"
         /\ cycle[r1].supplyAtCall = cycle[r2].supplyAtCall
         /\ cycle[r1].balanceAtCall = cycle[r2].balanceAtCall
         /\ cycle[r1].treasuryAddr = cycle[r2].treasuryAddr
         /\ cycle[r1].adjustment.ValueTokens + cycle[r2].adjustment.ValueTokens
                <= cycle[r1].balanceAtCall
         /\ cycle[r1].supplyAtCall + cycle[r1].adjustment.Amount
                + cycle[r2].adjustment.Amount < WordModulus) =>
            /\ CurrentSupply(storage) =
                   cycle[r1].supplyAtCall + cycle[r1].adjustment.Amount
                       + cycle[r2].adjustment.Amount
            /\ balance[cycle[r1].treasuryAddr] =
                   cycle[r1].balanceAtCall
                       - cycle[r1].adjustment.ValueTokens
                       - cycle[r2].adjustment.ValueTokens

\* Goroutine p is inside a Send of a feed: waiting for the feed's send lock
\* or for the subscribers to take the value.
InSend(p) == pc[p] \in {"send", "sendLock"}

\* C13 (as claimed): a goroutine that publishes (ProcessUpdate at line 150,
\* ApplySupplyAdjustment at line 291) gets out of Send whatever the
\* subscribers do, also when one of them never receives.
C13_PublicationNeverBlocks ==
    \A p \in Procs : InSend(p) ~> (~InSend(p) \/ panicked)

\* The last call of ApplySupplyAdjustment handed its decision to
\* adjustFeed.Send exactly once if it changed balance or supply, and
\* handed nothing to it otherwise.
PublishedIffMutated ==
    Applied =>
        last.sent = IF last.mutated THEN << last.adjustment >> ELSE << >>

\* The change the last call of ApplySupplyAdjustment made to the ledger is
\* the one the decision it published describes.
PayloadIsTheMutation ==
    (Applied /\ last.sent # << >>) =>
        LET e == last.sent[1]
            supplyChange == CurrentSupply(storage)
                                - CurrentSupply(last.storageBefore)
            balanceChange == balance[last.treasuryAddr]
                                 - last.balanceBefore[last.treasuryAddr]
        IN  /\ e.Type = Expansion =>
                   (supplyChange = e.Amount /\ balanceChange = - e.ValueTokens)
            /\ e.Type = Contraction =>
                   (supplyChange = - e.Amount /\ balanceChange = e.ValueTokens)

\* C14 (as claimed): the "adjustment applied" event is published exactly
\* once by each call of ApplySupplyAdjustment that mutated the ledger, never
\* by a call that did not, and its kind, amount and counterpart amount are
\* the mutation performed.
C14_AdjustmentEventMatchesMutation ==
    /\ PublishedIffMutated
    /\ PayloadIsTheMutation

\* The steps that start a run of ProcessUpdate: a check of the update
\* worker and ForceUpdate.
ProcessOps == {"checkForUpdates", "ForceUpdate"}

\* The last step ran ProcessUpdate (checkForUpdates found newer data, or
\* ForceUpdate's query succeeded).
RanProcessUpdate == last.op \in ProcessOps /\ last.called

\* C15 (as claimed): every run of ProcessUpdate started by the timer or by
\* ForceUpdate publishes the "value updated" event exactly once.
C15_EveryRunPublishesOnce ==
    RanProcessUpdate => Len(last.sent) = 1

\* C15 (amended): a run of ProcessUpdate that obtained the ledger state
\* hands exactly one event, the decision it computed, whatever its kind, to
\* updateFeed.Send, and is inside that Send unless it returned at once; a
\* run that did not obtain the ledger state, and a step that runs no
\* ProcessUpdate, publish nothing; whoever is inside a Send of updateFeed
\* is in ProcessUpdate.
C15_ProcessedTickPublishesOnce ==
    /\ (RanProcessUpdate /\ ~last.stateErr) =>
           /\ Len(last.sent) = 1
           /\ last.sent[1] \in Decisions
           /\ ~last.completed =>
                  (InSend(last.proc) /\ cycle[last.proc].event = last.sent[1])
    /\ (last.op \in ProcessOps /\ (~last.called \/ last.stateErr)) =>
           (last.sent = << >> /\ ~InSend(last.proc))
    /\ \A p \in Procs :
           (InSend(p) /\ cycle[p].feed = updateFeed) =>
               cycle[p].op = "ProcessUpdate"

\* C15 witness: a tick of the worker processed a decision of kind None and
\* is delivering it to a subscriber.
C15_Witness ==
    /\ last.op = "checkForUpdates"
    /\ last.called /\ ~last.stateErr
    /\ last.sent # << >>
    /\ last.sent[1].Type = None
    /\ feeds[updateFeed].sender = last.proc
    /\ feeds[updateFeed].pending # {}

\* C16 (as claimed): once m.quit is closed no worker at its select takes
\* the tick case, so no checkForUpdates begins after the shutdown signal.
C16_StoppedIsTerminal ==
    [][ quit => \A w \in Workers :
                   ~(pc[w] = "select" /\ tick[w] /\ ~tick'[w]) ]_vars

\* C17 (as claimed): after Stop every update worker that was started
\* returns in the end, wherever it was when m.quit was closed.
C17_WorkerReturnsAfterStop ==
    \A w \in Workers :
        (quit /\ pc[w] # "none") ~> (pc[w] = "returned" \/ panicked)

\* C18: a ForceUpdate whose oracle query fails returns the error and runs
\* no update cycle: the ledger, the feeds, the goroutines and
\* m.lastUpdateTime are as before and no event is published.  A ForceUpdate
\* whose query succeeds returns nil after one run of ProcessUpdate, whether
\* or not the decision source's time is after m.lastUpdateTime: when that
\* run obtained the ledger state it handed one event to updateFeed.Send,
\* and either is inside that Send or has set m.lastUpdateTime to now.
C18_ForceUpdate ==
    [][ (last'.op = "ForceUpdate") =>
          /\ last'.oracleErr =>
                 /\ last'.ret = "oracle error"
                 /\ ~last'.called
                 /\ last'.sent = << >>
                 /\ storage' = storage /\ balance' = balance
                 /\ lastUpdateTime' = lastUpdateTime
                 /\ feeds' = feeds /\ pc' = pc /\ cycle' = cycle
          /\ ~last'.oracleErr =>
                 /\ last'.ret = "nil"
                 /\ last'.called
                 /\ ~last'.stateErr =>
                        /\ Len(last'.sent) = 1
                        /\ IF last'.completed
                           THEN lastUpdateTime' = clock'
                           ELSE pc'[last'.proc] \in {"send", "sendLock"} ]_vars

\* C18 witness: a ForceUpdate whose query failed while the decision source
\* has newer data and a consumer is subscribed to the update feed.
C18_Witness ==
    /\ last.op = "ForceUpdate"
    /\ last.oracleErr
    /\ NewerData(sourceTime, lastUpdateTime)
    /\ feeds[updateFeed].subs # {}

\* C19: a periodic cycle whose ProcessUpdate cannot obtain the ledger state
\* publishes nothing, writes nothing and leaves m.lastUpdateTime as it was;
\* the worker is back at its select and the decision source's data is still
\* newer than m.lastUpdateTime; and every check that finds newer data runs
\* ProcessUpdate, so the next tick processes the pending update.
C19_LedgerFailureAbandonsCycle ==
    [][ (last'.op = "checkForUpdates") =>
          /\ last'.called = NewerData(sourceTime, lastUpdateTime)
          /\ (last'.called /\ last'.stateErr) =>
                 /\ last'.sent = << >>
                 /\ storage' = storage /\ balance' = balance
                 /\ lastUpdateTime' = lastUpdateTime
                 /\ feeds' = feeds /\ cycle' = cycle
                 /\ pc'[last'.proc] = "select"
                 /\ NewerData(sourceTime', lastUpdateTime') ]_vars

\* C19 witness: a tick's ProcessUpdate failed to obtain the ledger state
\* while a consumer is subscribed to the update feed.
C19_Witness ==
    /\ last.op = "checkForUpdates"
    /\ last.called /\ last.stateErr
    /\ feeds[updateFeed].subs # {}
    /\ ~quit

\* C20 (as claimed), for one call: a call of ApplySupplyAdjustment that
\* changed balance or supply also appended its history record and published
\* its event, and a call that did not change them did neither.
C20_ApplyIsAllOrNothing ==
    Applied =>
        /\ last.mutated = last.history
        /\ last.mutated = (last.sent # << >>)
        /\ ~last.history =>
               HistoryCount(storage) = HistoryCount(last.storageBefore)

\* The index updateAdjustmentHistory wrote its record at in the last call:
\* the history count it read (line 304-308), the mutation leaving that word
\* alone.
WrittenIndex == HistoryCount(last.storageBefore)

\* C21 (as claimed): the resultingSupply of the history record of an applied
\* adjustment is the current supply the ledger holds right after that
\* adjustment's mutation, whatever NewSupply the decision itself carries.
C21_RecordHoldsLedgerSupply ==
    (Applied /\ last.mutated /\ last.history) =>
        HistoryEntry(storage, WrittenIndex).NewSupply = CurrentSupply(storage)

\* C22 (as claimed): the journal is append-only.  No step makes the history
\* count smaller, and the record the call before wrote at its index reads
\* the same, field by field, after any step that follows it.
C22_JournalIsAppendOnly ==
    [][ /\ HistoryCount(storage') >= HistoryCount(storage)
        /\ (Applied /\ last.history) =>
               HistoryEntry(storage', WrittenIndex)
                   = HistoryEntry(storage, WrittenIndex) ]_vars

\* C23 (as claimed): one call of ApplySupplyAdjustment obtains the ledger
\* state once and does all its reads and writes, the history append
\* included, on that one state object; so whenever the call's mutation is on
\* the ledger its history record is there with it.
C23_OneSnapshotPerCycle ==
    Applied =>
        /\ last.stateCalls <= 1
        /\ last.mutated => last.history

\* C24: a check of the update worker that finds the decision source's last
\* update time not after m.lastUpdateTime runs no ProcessUpdate, writes
\* nothing and publishes nothing.  A run of ProcessUpdate that completes
\* leaves m.lastUpdateTime not before the decision source's time, and that
\* stays so until the decision source has a new update: the ticks in
\* between process nothing.
C24_OnlyNewDataIsProcessed ==
    [][ /\ (last'.op = "checkForUpdates" /\ ~(sourceTime > lastUpdateTime)) =>
               /\ ~last'.called
               /\ last'.sent = << >>
               /\ storage' = storage /\ balance' = balance
               /\ lastUpdateTime' = lastUpdateTime
               /\ feeds' = feeds /\ cycle' = cycle
               /\ pc'[last'.proc] = "select"
        /\ (last'.op \in ProcessOps \cup {"SendReturns"} /\ last'.completed) =>
               ~(sourceTime' > lastUpdateTime')
        /\ (sourceTime' = sourceTime /\ ~(sourceTime > lastUpdateTime)) =>
               ~(sourceTime' > lastUpdateTime') ]_vars

\* C24 witness: a tick found nothing new after an update of the decision
\* source had been processed.
C24_Witness ==
    /\ last.op = "checkForUpdates"
    /\ ~last.called
    /\ sourceTime > 0
    /\ lastUpdateTime >= sourceTime

\* C25 (as claimed): the record GetAdjustmentHistory reads at the index an
\* applied adjustment was appended at has that adjustment's kind,
\* supplyDelta, counterpartAmount, resultingSupply and deviationBasisPoints,
\* whatever their values, a negative deviation included.
C25_HistoryRoundTrip ==
    (Applied /\ last.history) =>
        LET entry == HistoryEntry(storage, WrittenIndex)
        IN  /\ entry.Type = last.adjustment.Type
            /\ entry.Amount = last.adjustment.Amount
            /\ entry.ValueTokens = last.adjustment.ValueTokens
            /\ entry.NewSupply = last.adjustment.NewSupply
            /\ entry.DeviationBps = last.adjustment.DeviationBps

\* A step of ProcessUpdate (by the worker's check or by ForceUpdate, to its
\* end or to its Send, or its part after the Send), of UpdateMarketValue or
\* of GetAdjustmentHistory.
NonEngineStep ==
    \/ last'.op \in ProcessOps \cup {"UpdateMarketValue",
                                     "GetAdjustmentHistory"}
    \/ last'.op = "SendReturns" /\ last'.of = "ProcessUpdate"

\* C26 (as claimed): ProcessUpdate, ForceUpdate, UpdateMarketValue and
\* GetAdjustmentHistory leave the current supply, the minimum supply, the
\* treasury balance, the history count and every history record as they
\* were.
C26_OnlyEngineWritesAdjustmentState ==
    [][ NonEngineStep =>
          /\ CurrentSupply(storage') = CurrentSupply(storage)
          /\ MinimumSupply(storage') = MinimumSupply(storage)
          /\ balance' = balance
          /\ HistoryCount(storage') = HistoryCount(storage)
          /\ \A i \in 0 .. HistoryCount(storage) :
                 HistoryEntry(storage', i) = HistoryEntry(storage, i) ]_vars

\* The identifiers of the named fields of the token's ledger account.
NamedFields ==
    { ultrastable_current_supply, ultrastable_minimum_supply,
      ultrastable_target_value, ultrastable_current_value,
      market_volatility, adjustment_history_count }

\* The field names of a history record.
RecordFields ==
    { lit_type, lit_amount, lit_value_tokens, lit_deviation, lit_new_supply,
      lit_timestamp }

\* The identifiers in use on ledger st: the named fields and the fields of
\* the records up to the index the next record is written at.
FieldIdentifiers(st) ==
    NamedFields \cup
        { prefix(i) \o f : i \in 0 .. HistoryCount(st), f \in RecordFields }

\* C27 (as claimed): common.HexToHash maps different field identifiers to
\* different keys.
C27_DistinctFieldsDistinctKeys ==
    \A a \in FieldIdentifiers(storage) : \A b \in FieldIdentifiers(storage) :
        a # b => HexToHash(a) # HexToHash(b)

\* C28 (as claimed), at the end of a run of ProcessUpdate that waited in
\* Send: the decision source's latest update is the one this run computed
\* its decision from, or is still newer than m.lastUpdateTime for a later
\* tick to find, or is being processed by another run.
C28_NoUpdateMissed ==
    [][ \A p \in Procs :
          (/\ last'.op = "SendReturns" /\ last'.of = "ProcessUpdate"
           /\ last'.proc = p) =>
              \/ cycle[p].seen = sourceTime'
              \/ sourceTime' > lastUpdateTime'
              \/ \E q \in Procs :
                     /\ cycle'[q].op = "ProcessUpdate"
                     /\ cycle'[q].seen = sourceTime' ]_vars

\* C29 (as claimed): no sequence of Start and Stop calls panics; a Stop
\* after a Stop and a Stop without a Start return and leave m.quit closed.
C29_StartStopNeverCrash ==
    /\ ~panicked
    /\ last.op = "Stop" => quit

====
